---------------------------- MODULE Spec2Model ----------------------------
(***************************************************************************)
(* Model of the IDW interpolation run of scripts/02_interpolar_clima_grid  *)
(* (section 4 of the script, lines 134-191): the KD-tree is built over the *)
(* station coordinates, the output buffers are allocated, and the grid is  *)
(* processed in batches.  Every batch issues one vectorised tree.query,    *)
(* filters the padding of every row, takes the fallback or the IDW branch  *)
(* per point, and writes its slice of both output buffers.                 *)
(*                                                                         *)
(* Numbers.  Station and grid positions are drawn from points whose        *)
(* station-to-grid Euclidean distances are integers (0, 1, 3, 4, 5).       *)
(* Estimates and weights are exact rationals <<num, den>> in lowest terms  *)
(* with den > 0; floating-point rounding is not modelled.  Lengths are     *)
(* counted in a unit in which the script's 1e-12 is one unit (Eps).        *)
(*                                                                         *)
(* The script's parameter block (POWER = 2, MAX_DISTANCE_KM = 300,         *)
(* MIN_NEIGHBORS = 3, MAX_NEIGHBORS = 15, batch_size = 50000) is the run's *)
(* configuration: it is state set before the run and never changed by it.  *)
(* The model runs it scaled down to a few stations and grid points, and    *)
(* with the other values an edit of the block can give it.                 *)
(*                                                                         *)
(* cKDTree is scipy's: its query returns, per point, the k nearest         *)
(* stations at distance strictly less than distance_upper_bound, nearest   *)
(* first, and fills the rest of the row with the distance inf and the      *)
(* index n; its constructor raises ValueError for an array that is not     *)
(* 2-dimensional, as the array of no station is.                           *)
(***************************************************************************)
EXTENDS Integers, Sequences, FiniteSets, TLC

\* ------------------------------------------------------------------ bounds
MaxStations == 2
MaxGrid == 3
MaxBatch == 2
MaxNeighbors == 2

\* 1e-12 of line 178, in the model's unit of length.
Eps == 1

\* Station and grid positions.  From the grid point (0,0) the stations are at
\* distances 0, 3 and 3 (a tie); from (0,4) they are at 4, 5 and 1.  With the
\* search radius 4 a station can be inside it, exactly on it or outside it.
StationCoords == {<<0, 0>>, <<3, 0>>, <<0, 3>>}
GridCoords == {<<0, 0>>, <<0, 4>>}
StationValues == {1, 4}
Powers == {0, 2}
MinNeighborChoices == 0..MaxNeighbors
MaxNeighborChoices == 1..MaxNeighbors
MaxDistances == {4}

\* Missing neighbours are reported by cKDTree.query with an infinite distance.
Inf == 1000000

\* i is the index of the next iteration of the batch loop, pc the place of
\* the run (start, loop, done, error) and raised the exception that stopped
\* it.  written counts the assignments to each output slot and queries the
\* points handed to tree.query: they record the run, the script has no such
\* variables.
VARIABLES
    POWER, MIN_NEIGHBORS, MAX_NEIGHBORS, max_dist_m, batch_size,
    coords_estacoes, valores_estacoes, coords_grid,
    tree, resultados, vizinhos_count, i, pc, raised, written, queries

config == <<POWER, MIN_NEIGHBORS, MAX_NEIGHBORS, max_dist_m, batch_size>>
inputs == <<coords_estacoes, valores_estacoes, coords_grid>>
vars == <<config, inputs, tree, resultados, vizinhos_count, i, pc, raised,
          written, queries>>

\* ------------------------------------------------------------ arithmetic
RECURSIVE GCD(_, _)
GCD(a, b) == IF b = 0 THEN a ELSE GCD(b, a % b)

Abs(x) == IF x < 0 THEN -x ELSE x

Min(a, b) == IF a < b THEN a ELSE b

\* A rational in lowest terms, denominator positive.
Rat(n, d) ==
    LET g == GCD(Abs(n), Abs(d))
        s == IF d < 0 THEN -1 ELSE 1
    IN  <<(s * n) \div g, (s * d) \div g>>

RatAdd(a, b) ==
    LET g == GCD(a[2], b[2])
        l == (a[2] \div g) * b[2]
    IN  Rat(a[1] * (l \div a[2]) + b[1] * (l \div b[2]), l)

RatMul(a, b) ==
    LET x == Rat(a[1], b[2])
        y == Rat(b[1], a[2])
    IN  Rat(x[1] * y[1], x[2] * y[2])

RatInv(a) == Rat(a[2], a[1])

RatLeq(a, b) == a[1] * b[2] <= b[1] * a[2]

RECURSIVE Pow(_, _)
Pow(b, e) == IF e <= 0 THEN 1 ELSE b * Pow(b, e - 1)

RECURSIVE RatSum(_)
RatSum(s) == IF s = <<>> THEN <<0, 1>> ELSE RatAdd(Head(s), RatSum(Tail(s)))

\* np.dot of a weight vector and a value vector.
RECURSIVE RatDot(_, _)
RatDot(w, v) ==
    IF w = <<>> THEN <<0, 1>>
    ELSE RatAdd(RatMul(Head(w), <<Head(v), 1>>), RatDot(Tail(w), Tail(v)))

RECURSIVE IntSum(_)
IntSum(s) == IF s = <<>> THEN 0 ELSE Head(s) + IntSum(Tail(s))

\* Not-a-number, as 0/0.
NaN == <<0, 0>>

\* np.mean: the mean of an empty array is nan.
Mean(v) == IF Len(v) = 0 THEN NaN ELSE Rat(IntSum(v), Len(v))

\* ------------------------------------------------------------ sequences
\* s[a+1 .. b] in 1-based terms: the Python slice s[a:b].
Slice(s, a, b) == [j \in 1..(b - a) |-> s[a + j]]

\* s with s[a:b] = t assigned (Len(t) = b - a).
SliceAssign(s, a, b, t) ==
    [j \in 1..Len(s) |-> IF a < j /\ j <= b THEN t[j - a] ELSE s[j]]

\* Boolean-mask indexing: the entries of s whose mask entry is TRUE, in order.
RECURSIVE Mask(_, _)
Mask(s, m) ==
    IF s = <<>> THEN <<>>
    ELSE IF Head(m) THEN <<Head(s)>> \o Mask(Tail(s), Tail(m))
         ELSE Mask(Tail(s), Tail(m))

\* The sequence f as an explicit tuple (the same value; its entries are
\* computed once).
Tuple(f) == f \o <<>>

Zeros(n) == [j \in 1..n |-> 0]

\* The orders in which a tree over n stations may visit them: index order and
\* its reverse.  With StationCoords and GridCoords at most two stations are
\* equidistant from a grid point, so the two orders give both outcomes of
\* every tie.
TreeOrders(n) == {[j \in 1..n |-> j], [j \in 1..n |-> n + 1 - j]}

\* ------------------------------------------------------------- geometry
\* Euclidean distance; exact between StationCoords and GridCoords.
Dist(p, q) ==
    LET sq == (p[1] - q[1]) * (p[1] - q[1]) + (p[2] - q[2]) * (p[2] - q[2])
    IN  CHOOSE r \in 0..sq : r * r = sq

NumStations == Len(coords_estacoes)

\* Position of station s in the tree's traversal order: it decides which of
\* two equidistant stations the query reports first.
TreePos(s) == CHOOSE j \in 1..NumStations : tree[j] = s

\* The distance of every station from the point x.
StationDists(x) ==
    Tuple([s \in 1..NumStations |-> Dist(x, coords_estacoes[s])])

\* A bound that admits the station exactly at the bound.
WithinBoundInclusive(d, ub) == d <= ub

\* Whether the query admits a station at distance d under the bound ub.
WithinBound(d, ub) == d < ub

\* The stations nearest first, given their distances ds; equidistant
\* stations in the tree's order.
NearestFirst(ds) ==
    LET pos  == Tuple([s \in 1..NumStations |-> TreePos(s)])
        rank == Tuple([s \in 1..NumStations |->
                   Cardinality({t \in 1..NumStations :
                       \/ ds[t] < ds[s]
                       \/ ds[t] = ds[s] /\ pos[t] < pos[s]})])
    IN  Tuple([j \in 1..NumStations |->
           CHOOSE s \in 1..NumStations : rank[s] = j - 1])

InRange(ds, ub) == {s \in 1..NumStations : WithinBound(ds[s], ub)}

\* One row of tree.query(x, k, distance_upper_bound = ub): the k nearest
\* stations under the bound, nearest first; a missing neighbour has distance
\* Inf and the index one past the last station (self.n).
QueryRow(x, k, ub) ==
    LET ds    == StationDists(x)
        order == NearestFirst(ds)
        found == Min(k, Cardinality(InRange(ds, ub)))
    IN  [dists |-> Tuple([j \in 1..k |->
                      IF j <= found THEN ds[order[j]] ELSE Inf]),
         idxs  |-> Tuple([j \in 1..k |->
                      IF j <= found THEN order[j] ELSE NumStations + 1])]

\* tree.query on a batch: one row per point of the batch.
Query(batch_coords, k, ub) ==
    Tuple([j \in 1..Len(batch_coords) |-> QueryRow(batch_coords[j], k, ub)])

\* ------------------------------------------------------- per-point step
\* Lines 167-169: the mask of the entries of a row that are real neighbours.
\* (With k = 1 the query returns scalars per point; masking a scalar yields
\* an array of one entry or of none, as masking a row of length 1 does.)
Valid(row) == Tuple([j \in 1..Len(row.dists) |-> row.dists[j] # Inf])

FilteredDists(row) == Mask(row.dists, Valid(row))

FilteredIdxs(row) == Mask(row.idxs, Valid(row))

\* Line 178: w = 1.0 / (d + 1e-12)**POWER.
RawWeights(d) == Tuple([j \in 1..Len(d) |-> Rat(1, Pow(d[j] + Eps, POWER))])

\* The weights left as they are.
NormalizeSkipped(w) == w

\* Line 179: w /= w.sum().
Normalize(w) ==
    LET total == RatSum(w)
    IN  Tuple([j \in 1..Len(w) |-> RatMul(w[j], RatInv(total))])

Weights(d) == Normalize(RawWeights(d))

\* valores_estacoes[ix]
Gather(ix) == [j \in 1..Len(ix) |-> valores_estacoes[ix[j]]]

\* The fallback taken only when no neighbour at all is in range.
TakesFallbackOnlyWhenAlone(n) == n = 0

\* Whether a point with n valid neighbours gets the fallback (line 171).
TakesFallback(n) == n < MIN_NEIGHBORS

\* Lines 171-174: the fallback's value and neighbour count.
Fallback == [val |-> Mean(valores_estacoes), n |-> 0]

\* The IDW branch reporting the number of neighbours asked for.
IDWCountsRequested(d, ix) ==
    [val |-> RatDot(Weights(d), Gather(ix)), n |-> MAX_NEIGHBORS]

\* Lines 175-181: the IDW branch.
IDW(d, ix) == [val |-> RatDot(Weights(d), Gather(ix)), n |-> Len(d)]

\* Lines 166-181: one iteration of the inner loop, on one row of the query.
PointResult(row) ==
    LET d  == FilteredDists(row)
        ix == FilteredIdxs(row)
    IN  IF TakesFallback(Len(d)) THEN Fallback ELSE IDW(d, ix)

\* ------------------------------------------------------------ batch loop
NumGrid == Len(coords_grid)

\* The batch count without the batch for the remainder.
NumBatchesRoundedDown(bs) == NumGrid \div bs

\* Line 148.
NumBatches(bs) == (NumGrid \div bs) + 1

\* Batches whose windows overlap.
BatchStartOverlaps(k, bs) == k * (bs - 1)

\* A batch that starts one point late.
BatchStartSkipsPoint(k, bs) == k * bs + 1

\* Lines 153-154.
BatchStart(k, bs) == k * bs

BatchEnd(k, bs) == Min((k + 1) * bs, NumGrid)

\* Lines 157-184: the values and neighbour counts of the batch [start, end).
BatchResults(start, end) ==
    LET batch_coords == Slice(coords_grid, start, end)
        rows == Query(batch_coords, MAX_NEIGHBORS, max_dist_m)
    IN  Tuple([j \in 1..Len(batch_coords) |-> PointResult(rows[j])])

\* batch_vals and batch_neighs of lines 162-163 and 183-184.
BatchVals(r) == [j \in 1..Len(r) |-> r[j].val]

BatchNeighs(r) == [j \in 1..Len(r) |-> r[j].n]

\* Lines 153-187 for the batch k under batch size bs, on the output buffers
\* out = [res, cnt]: both slices [start, end) are assigned.
ApplyBatch(out, k, bs) ==
    LET start == BatchStart(k, bs)
        end   == BatchEnd(k, bs)
        r     == BatchResults(start, end)
    IN  [res |-> Tuple(SliceAssign(out.res, start, end, BatchVals(r))),
         cnt |-> Tuple(SliceAssign(out.cnt, start, end, BatchNeighs(r)))]

\* An empty batch taken for one that has points.
HasWorkOrEmpty(k, bs) == BatchStart(k, bs) <= BatchEnd(k, bs)

\* Line 155: whether the batch k has any point.
HasWork(k, bs) == BatchStart(k, bs) < BatchEnd(k, bs)

\* Lines 143-144: the output buffers as allocated.
ZeroBuffers == [res |-> [j \in 1..NumGrid |-> <<0, 1>>], cnt |-> Zeros(NumGrid)]

\* The batch body applied to the batches ks, in the order of ks.
RECURSIVE RunBatches(_, _, _)
RunBatches(out, ks, bs) ==
    IF ks = <<>> THEN out
    ELSE RunBatches(ApplyBatch(out, Head(ks), bs), Tail(ks), bs)

\* ---------------------------------------------------------------- state
ValidConfig ==
    /\ POWER > 0
    /\ MIN_NEIGHBORS >= 1
    /\ MAX_NEIGHBORS >= MIN_NEIGHBORS

\* The state when section 4 of the script starts: any configuration, any
\* table of stations at distinct positions and any grid within the bounds.
InitAny ==
    /\ POWER \in Powers
    /\ MIN_NEIGHBORS \in MinNeighborChoices
    /\ MAX_NEIGHBORS \in MaxNeighborChoices
    /\ max_dist_m \in MaxDistances
    /\ batch_size \in 1..MaxBatch
    /\ \E n \in 0..MaxStations :
          /\ coords_estacoes \in [1..n -> StationCoords]
          /\ \A a, b \in 1..n : a # b => coords_estacoes[a] # coords_estacoes[b]
          /\ valores_estacoes \in [1..n -> StationValues]
    /\ \E n \in 0..MaxGrid : coords_grid \in [1..n -> GridCoords]
    /\ tree = <<>>
    /\ resultados = <<>>
    /\ vizinhos_count = <<>>
    /\ i = 0
    /\ pc = "start"
    /\ raised = "none"
    /\ written = <<>>
    /\ queries = 0

\* The configurations the parameter block is meant to hold.
Init == InitAny /\ ValidConfig

\* The tree built over whatever station array it is given.
BuildTreeUnchecked ==
    /\ pc = "start"
    /\ tree' \in TreeOrders(NumStations)
    /\ resultados' = [j \in 1..Len(coords_grid) |-> <<0, 1>>]
    /\ vizinhos_count' = [j \in 1..Len(coords_grid) |-> 0]
    /\ written' = [j \in 1..Len(coords_grid) |-> 0]
    /\ pc' = "loop"
    /\ UNCHANGED <<config, inputs, i, queries, raised>>

\* Lines 140-148: cKDTree(coords_estacoes) rejects an empty station array
\* (its data is not 2-dimensional) with a ValueError; otherwise the tree is
\* built and the output buffers are allocated.
BuildTree ==
    /\ pc = "start"
    /\ IF NumStations = 0
       THEN /\ pc' = "error"
            /\ raised' = "ValueError"
            /\ UNCHANGED <<tree, resultados, vizinhos_count, written>>
       ELSE /\ tree' \in TreeOrders(NumStations)
            /\ resultados' = ZeroBuffers.res
            /\ vizinhos_count' = ZeroBuffers.cnt
            /\ written' = Zeros(NumGrid)
            /\ pc' = "loop"
            /\ raised' = raised
    /\ UNCHANGED <<config, inputs, i, queries>>

\* Lines 152-189, one iteration that does work.
ProcessBatch ==
    /\ pc = "loop"
    /\ i < NumBatches(batch_size)
    /\ HasWork(i, batch_size)
    /\ LET out == ApplyBatch([res |-> resultados, cnt |-> vizinhos_count],
                             i, batch_size)
           start == BatchStart(i, batch_size)
           end   == BatchEnd(i, batch_size)
       IN  /\ resultados' = out.res
           /\ vizinhos_count' = out.cnt
           /\ written' = [j \in 1..Len(written) |->
                            IF start < j /\ j <= end
                            THEN written[j] + 1 ELSE written[j]]
           /\ queries' = queries + (end - start)
    /\ i' = i + 1
    /\ UNCHANGED <<config, inputs, tree, pc, raised>>

\* Line 155: the iteration whose range is empty leaves the loop.
BreakLoop ==
    /\ pc = "loop"
    /\ i < NumBatches(batch_size)
    /\ ~HasWork(i, batch_size)
    /\ pc' = "done"
    /\ UNCHANGED <<config, inputs, tree, resultados, vizinhos_count, i,
                   raised, written, queries>>

\* Line 152: range(num_batches) is exhausted.
ExhaustLoop ==
    /\ pc = "loop"
    /\ i >= NumBatches(batch_size)
    /\ pc' = "done"
    /\ UNCHANGED <<config, inputs, tree, resultados, vizinhos_count, i,
                   raised, written, queries>>

Next == BuildTree \/ ProcessBatch \/ BreakLoop \/ ExhaustLoop

Spec == Init /\ [][Next]_vars

SpecAnyConfig == InitAny /\ [][Next]_vars

\* ======================================================== properties ====
\* What the properties are stated with, computed from the inputs alone.

\* The stations strictly nearer to x than the search radius.
Reachable(x) ==
    {s \in 1..NumStations : Dist(x, coords_estacoes[s]) < max_dist_m}

\* The number of valid neighbours of x: the stations among the
\* MAX_NEIGHBORS nearest that are in range.
ValidCount(x) == Min(MAX_NEIGHBORS, Cardinality(Reachable(x)))

\* The output slots assigned so far.
Assigned == {g \in 1..Len(written) : written[g] >= 1}

\* The rational q is the mean of all station values.
IsGlobalMean(q) ==
    /\ q[2] > 0
    /\ q[1] * NumStations = IntSum(valores_estacoes) * q[2]

Outputs == [res |-> resultados, cnt |-> vizinhos_count]

\* The batches of size bs that have points, in increasing and in decreasing
\* offset order.
WorkCount(bs) ==
    Cardinality({k \in 0..(NumBatches(bs) - 1) : HasWork(k, bs)})

Ascending(bs) == [j \in 1..WorkCount(bs) |-> j - 1]

Descending(bs) == [j \in 1..WorkCount(bs) |-> WorkCount(bs) - j]

\* C1 -- Batching invariance.  When the run is over, the two output buffers
\* equal what the batch body yields from zeroed buffers for every batch size
\* from 1 to MaxBatch + 1 and for the batch size len(grid), with the batches
\* taken in increasing or in decreasing offset order; and two grid points at
\* the same position carry the same estimate and neighbour count, whichever
\* batches they fell in.
BatchingInvariance ==
    pc = "done" =>
        /\ \A bs \in (1..(MaxBatch + 1)) \cup ({NumGrid} \ {0}) :
              /\ RunBatches(ZeroBuffers, Ascending(bs), bs) = Outputs
              /\ RunBatches(ZeroBuffers, Descending(bs), bs) = Outputs
        /\ \A g, h \in 1..NumGrid :
              coords_grid[g] = coords_grid[h] =>
                  /\ resultados[g] = resultados[h]
                  /\ vizinhos_count[g] = vizinhos_count[h]

\* A finished run of several batches, the last one partial, that produced
\* both fallback and IDW estimates.
BatchingInvarianceWitness ==
    /\ pc = "done"
    /\ NumGrid > batch_size
    /\ NumGrid % batch_size # 0
    /\ \E g, h \in 1..NumGrid :
          /\ vizinhos_count[g] = 0
          /\ vizinhos_count[h] > 0
          /\ resultados[g] # resultados[h]

\* C2 -- Fallback policy.  Every assigned grid point with fewer than
\* MIN_NEIGHBORS valid neighbours carries the mean of all station values and
\* the neighbour count 0.
FallbackPolicy ==
    \A g \in Assigned :
        ValidCount(coords_grid[g]) < MIN_NEIGHBORS =>
            /\ IsGlobalMean(resultados[g])
            /\ vizinhos_count[g] = 0

\* A point with one station in range, fewer than MIN_NEIGHBORS, and a
\* station out of range whose value differs: the global mean is not the
\* mean of the neighbours.
FallbackPolicyWitness ==
    \E g \in Assigned :
        LET x == coords_grid[g]
        IN  /\ Cardinality(Reachable(x)) = 1
            /\ MIN_NEIGHBORS = 2
            /\ vizinhos_count[g] = 0
            /\ \E s \in Reachable(x), t \in (1..NumStations) \ Reachable(x) :
                  valores_estacoes[s] # valores_estacoes[t]

\* The row the query returns for the grid point g, and what lines 167-169
\* keep of it.
RowOf(g) == QueryRow(coords_grid[g], MAX_NEIGHBORS, max_dist_m)

\* C3 -- Total, index-aligned output.  With at least one station the run
\* ends: every step of the loop either ends it or moves on to the next
\* batch, the batch index never passes the batch count, and a batch that
\* has work is a non-empty range inside the grid.  No slot is ever assigned
\* twice, no error is raised, and at the end both buffers have the length of the grid and every
\* slot g was assigned exactly once and holds the estimate and the
\* neighbour count computed for the grid point g.
TotalAlignedOutput ==
    /\ [](NumStations > 0 =>
            /\ raised = "none"
            /\ pc \in {"start", "loop", "done"}
            /\ pc = "loop" =>
                  /\ i <= NumBatches(batch_size)
                  /\ i < NumBatches(batch_size) /\ HasWork(i, batch_size) =>
                        /\ 0 <= BatchStart(i, batch_size)
                        /\ BatchEnd(i, batch_size) <= NumGrid
            /\ \A g \in 1..Len(written) : written[g] <= 1)
    /\ [][pc = "loop" => (pc' = "done" \/ i' = i + 1)]_vars
    /\ [](pc = "done" =>
            /\ Len(resultados) = NumGrid
            /\ Len(vizinhos_count) = NumGrid
            /\ \A g \in 1..NumGrid :
                  /\ written[g] = 1
                  /\ resultados[g] = PointResult(RowOf(g)).val
                  /\ vizinhos_count[g] = PointResult(RowOf(g)).n)

\* A finished run over a grid of exactly two full batches.
TotalAlignedOutputWitness ==
    /\ pc = "done"
    /\ NumGrid = 2 * batch_size
    /\ \A g \in 1..NumGrid : written[g] = 1

\* The estimate of the assigned point g is a convex combination of the
\* values of the neighbours used: their weights are positive and sum to 1,
\* the estimate is the dot product of the weights and the values, and it
\* lies between the least and the greatest of those values.
IsConvexEstimate(g) ==
    LET d    == FilteredDists(RowOf(g))
        ix   == FilteredIdxs(RowOf(g))
        w    == Weights(d)
        used == {valores_estacoes[ix[j]] : j \in 1..Len(ix)}
    IN  /\ Len(w) >= 1
        /\ vizinhos_count[g] = Len(w)
        /\ \A j \in 1..Len(w) : w[j][1] > 0 /\ w[j][2] > 0
        /\ RatSum(w) = <<1, 1>>
        /\ resultados[g] = RatDot(w, Gather(ix))
        /\ \E lo \in used : RatLeq(<<lo, 1>>, resultados[g])
        /\ \E hi \in used : RatLeq(resultados[g], <<hi, 1>>)

\* C4 as stated -- for every assigned grid point with at least MIN_NEIGHBORS
\* stations within max_distance, a station exactly at max_distance counted
\* as within it, the estimate is a convex combination of neighbour values.
ConvexCombinationInclusive ==
    \A g \in Assigned :
        Cardinality({s \in 1..NumStations :
            Dist(coords_grid[g], coords_estacoes[s]) <= max_dist_m})
                >= MIN_NEIGHBORS
            => IsConvexEstimate(g)

\* C4 -- Convex combination, as amended.  For every assigned grid point with
\* at least MIN_NEIGHBORS valid neighbours (stations among the MAX_NEIGHBORS
\* nearest at distance strictly less than max_distance), the estimate is a
\* convex combination of the values of exactly those neighbours.
ConvexCombination ==
    \A g \in Assigned :
        ValidCount(coords_grid[g]) >= MIN_NEIGHBORS =>
            /\ IsConvexEstimate(g)
            /\ vizinhos_count[g] = ValidCount(coords_grid[g])

\* A point interpolated from two neighbours with different values: the
\* estimate is strictly between them.
ConvexCombinationWitness ==
    \E g \in Assigned :
        /\ vizinhos_count[g] = 2
        /\ resultados[g][2] > 1
        /\ RatLeq(<<1, 1>>, resultados[g])
        /\ RatLeq(resultados[g], <<4, 1>>)

\* The neighbour list of the point x, after the filter of lines 167-169,
\* against the set of stations taken to be in range: at most MAX_NEIGHBORS
\* pairs, each a real station at its true distance, no station twice, in
\* ascending distance, all in range, as many as are in range (up to
\* MAX_NEIGHBORS), and no station in range left out that is nearer than one
\* listed.
NeighbourListIs(x, inrange) ==
    LET row == QueryRow(x, MAX_NEIGHBORS, max_dist_m)
        d   == FilteredDists(row)
        ix  == FilteredIdxs(row)
        listed == {ix[j] : j \in 1..Len(ix)}
    IN  /\ Len(d) = Len(ix)
        /\ Len(d) <= MAX_NEIGHBORS
        /\ \A j \in 1..Len(d) :
              /\ d[j] # Inf
              /\ ix[j] \in 1..NumStations
              /\ d[j] = Dist(x, coords_estacoes[ix[j]])
        /\ \A j, k \in 1..Len(d) : j < k => d[j] <= d[k] /\ ix[j] # ix[k]
        /\ listed \subseteq inrange
        /\ Len(d) = Min(MAX_NEIGHBORS, Cardinality(inrange))
        /\ \A s \in inrange \ listed :
              \A j \in 1..Len(d) : d[j] <= Dist(x, coords_estacoes[s])

\* C5 as stated -- the list holds the nearest stations at distance
\* <= max_distance: a station exactly at max_distance is included.
NeighbourContractInclusive ==
    \A g \in Assigned :
        NeighbourListIs(coords_grid[g],
            {s \in 1..NumStations :
                Dist(coords_grid[g], coords_estacoes[s]) <= max_dist_m})

\* C5 -- Neighbour-query contract, as amended.  For every assigned grid
\* point the filtered list holds at most MAX_NEIGHBORS pairs, ascending by
\* distance, without padding, and they are exactly the nearest stations at
\* distance strictly less than max_distance: a station exactly at
\* max_distance is excluded.
NeighbourContractStrict ==
    \A g \in Assigned : NeighbourListIs(coords_grid[g], Reachable(coords_grid[g]))

\* A point with a station exactly at the search radius and fewer stations in
\* range than MAX_NEIGHBORS, so that the query padded its row.
NeighbourContractWitness ==
    \E g \in Assigned :
        LET x == coords_grid[g]
        IN  /\ \E s \in 1..NumStations : Dist(x, coords_estacoes[s]) = max_dist_m
            /\ Cardinality(Reachable(x)) = 1
            /\ MAX_NEIGHBORS = 2
            /\ RowOf(g).dists[2] = Inf
            /\ vizinhos_count[g] = 1

\* C6 -- Empty station input is rejected at index-build time.  With no
\* station the run is either not started or stopped by the error raised
\* while the tree is built (cKDTree's ValueError): no tree exists, no query
\* was issued, no output buffer was allocated or written.  The run stops
\* with an error in no other case.
EmptyStationsRejected ==
    /\ NumStations = 0 =>
          /\ pc \in {"start", "error"}
          /\ pc = "error" => raised = "ValueError"
          /\ tree = <<>>
          /\ queries = 0
          /\ resultados = <<>>
          /\ vizinhos_count = <<>>
          /\ written = <<>>
    /\ pc = "error" => NumStations = 0

\* The run stopped at the tree's construction, with grid points waiting.
EmptyStationsRejectedWitness ==
    /\ NumStations = 0
    /\ NumGrid > 0
    /\ pc = "error"
    /\ raised = "ValueError"

\* C7 as stated -- Invalid configuration is rejected up front: with
\* POWER <= 0, MIN_NEIGHBORS < 1 or MAX_NEIGHBORS < MIN_NEIGHBORS the run
\* never reaches the batch loop, issues no query and writes no slot.
InvalidConfigRejected ==
    ~ValidConfig =>
        /\ pc \in {"start", "error"}
        /\ queries = 0
        /\ Assigned = {}

\* C8 -- Empty grid is valid.  With no grid point and at least one station
\* no error is raised and no query is issued; the buffers have length 0;
\* the batch count is 1, its single batch has no work, so the loop is left
\* by the break of line 155 with the batch index still 0.
EmptyGridValid ==
    (NumGrid = 0 /\ NumStations > 0) =>
        /\ raised = "none"
        /\ queries = 0
        /\ pc \in {"start", "loop", "done"}
        /\ pc # "start" =>
              /\ Len(resultados) = 0
              /\ Len(vizinhos_count) = 0
              /\ i = 0
              /\ NumBatches(batch_size) = 1
              /\ ~HasWork(0, batch_size)
        /\ pc = "loop" => ENABLED BreakLoop /\ ~ENABLED ProcessBatch

\* A finished run over an empty grid.
EmptyGridValidWitness ==
    /\ NumGrid = 0
    /\ NumStations > 0
    /\ pc = "done"

\* C9 -- neighbor_count is a faithful sparse-data flag.  For every assigned
\* grid point, the count is 0 exactly when the point has fewer than
\* MIN_NEIGHBORS valid neighbours, which is exactly when the fallback is
\* taken; otherwise it is the number of neighbours in the weighted sum, at
\* least MIN_NEIGHBORS, at most MAX_NEIGHBORS and at most the number of
\* stations.
NeighbourCountFlag ==
    \A g \in Assigned :
        LET nv == ValidCount(coords_grid[g])
            ix == FilteredIdxs(RowOf(g))
        IN  /\ vizinhos_count[g] = 0 <=> nv < MIN_NEIGHBORS
            /\ TakesFallback(Len(ix)) <=> nv < MIN_NEIGHBORS
            /\ nv >= MIN_NEIGHBORS =>
                  /\ vizinhos_count[g] = nv
                  /\ vizinhos_count[g] = Len(Weights(FilteredDists(RowOf(g))))
                  /\ MIN_NEIGHBORS <= vizinhos_count[g]
                  /\ vizinhos_count[g] <= MAX_NEIGHBORS
                  /\ vizinhos_count[g] <= NumStations

\* A finished run with a point that fell back although one station was in
\* range, and a point interpolated from two.
NeighbourCountFlagWitness ==
    /\ pc = "done"
    /\ \E g, h \in Assigned :
          /\ vizinhos_count[g] = 0
          /\ ValidCount(coords_grid[g]) = 1
          /\ vizinhos_count[h] = 2

\* C10 -- Monotone, write-once fill.  From the allocation on, the slots
\* assigned are exactly the first min(i * batch_size, N), each once; a step
\* that does a batch moves the batch index from i to i + 1, assigns exactly
\* the slots of [i * batch_size, min((i + 1) * batch_size, N)), none of which
\* was assigned before, and leaves every other slot of both buffers as it
\* was; and at the end the number of batches done is ceil(N / batch_size).
MonotoneFill ==
    /\ [](pc \in {"loop", "done"} =>
            written = [g \in 1..NumGrid |->
                         IF g <= Min(i * batch_size, NumGrid) THEN 1 ELSE 0])
    /\ [][(pc = "loop" /\ i' # i) =>
            /\ i' = i + 1
            /\ \A g \in 1..NumGrid :
                  IF i * batch_size < g
                     /\ g <= Min((i + 1) * batch_size, NumGrid)
                  THEN written[g] = 0 /\ written'[g] = 1
                  ELSE /\ written'[g] = written[g]
                       /\ resultados'[g] = resultados[g]
                       /\ vizinhos_count'[g] = vizinhos_count[g]]_vars
    /\ [](pc = "done" =>
            i = (NumGrid + batch_size - 1) \div batch_size)

\* The loop after its first batch of two points, with a third point left.
MonotoneFillWitness ==
    /\ pc = "loop"
    /\ i = 1
    /\ batch_size = 2
    /\ NumGrid = 3
    /\ written = <<1, 1, 0>>

=============================================================================
